---- MODULE Spec2Model ----
(***************************************************************************)
(* PathPal: the WebSocket connection registry (ConnectionManager) and the  *)
(* fail-safe emergency-alert pipeline (process_emergency_alert).           *)
(*                                                                         *)
(* The registry is one shared object used by several asyncio tasks.  The   *)
(* code between two awaits runs atomically; every action below is one such *)
(* block.  Python dicts keep insertion order, so the per-trip member dict  *)
(* is a sequence of [user, ws] entries; the two outer dicts are never      *)
(* iterated and are functions with a varying domain.                       *)
(*                                                                         *)
(* connect() and disconnect() have no await after their first statement,   *)
(* so any task may run them at any time as one step.  The awaits of one    *)
(* send_personal_message() or broadcast_to_trip() call are followed step   *)
(* by step in `call`; what a second such call running at the same time     *)
(* does to the registry is a disconnect() of some users, which the         *)
(* Disconnect action already interleaves.                                  *)
(*                                                                         *)
(* The sessions (websocket_endpoint, one call per connection) run on the   *)
(* same registry in a specification of their own, SpecSession, in which    *)
(* every await of two sessions is a step; the alert endpoint and the       *)
(* pipeline it schedules run in SpecAlert.                                 *)
(***************************************************************************)
EXTENDS Integers, Sequences, FiniteSets, TLC

\* ---------------------------------------------------------------- bounds
\* Users that connect, and connections a run registers.
NumUsers == 2
MaxConnects == 2
\* Emergency contacts of the user, length of a transcript or completion,
\* and alert invocations in a run.
NumContacts == 2
MaxTextLen == 2
MaxInvocations == 1

UserIds == 1..NumUsers
\* Two trips and two WebSocket objects are told apart.
TripIds == {1, 2}
Handles == {1, 2}

\* exclude_user: str = None
NoUser == 0

VARIABLES
    trip_connections,   \* trip_id -> member dict (sequence of [user, ws])
    user_trip_mapping,  \* user_id -> trip_id
    call,               \* the registry call whose awaits are followed
    alert,              \* the process_emergency_alert() invocation in progress
    alerts,             \* the committed rows of the Alert table, oldest first
    invocations,        \* how many invocations have been started
    connects,           \* how many connect() calls have registered a user
    sessions,           \* session -> the state of its websocket_endpoint() call
    http_response,      \* what the latest POST /alerts/emergency was answered
    scheduled,          \* how many background tasks the endpoint has added
    upload              \* the audio file of the latest POST /alerts/emergency

regVars == <<trip_connections, user_trip_mapping, call, connects>>

alertVars == <<alert, alerts, invocations, http_response, scheduled, upload>>

sessVars == <<sessions>>

vars == <<trip_connections, user_trip_mapping, call, alert, alerts, invocations, connects,
          sessions, http_response, scheduled, upload>>

\* ------------------------------------------------------- dict operations
\* d[k] = v on an insertion-ordered dict: an existing key keeps its place.
DictHas(d, k) == \E i \in 1..Len(d) : d[i].user = k

DictPut(d, k, v) ==
    IF DictHas(d, k)
    THEN [i \in 1..Len(d) |-> IF d[i].user = k THEN [user |-> k, ws |-> v] ELSE d[i]]
    ELSE Append(d, [user |-> k, ws |-> v])

\* d.pop(k, None)
DictPop(d, k) == SelectSeq(d, LAMBDA e : e.user # k)

\* d.get(k): the handle, or 0 for None
DictGet(d, k) ==
    IF DictHas(d, k) THEN d[CHOOSE i \in 1..Len(d) : d[i].user = k].ws ELSE 0

\* f without key k / f with key k set to v (outer dicts)
MapDel(f, k) == [x \in (DOMAIN f) \ {k} |-> f[x]]

MapSet(f, k, v) == [x \in (DOMAIN f) \cup {k} |-> IF x = k THEN v ELSE f[x]]

\* ------------------------------------------------- ConnectionManager ops
\* The registry as a value, so that the methods are operators on it.
Registry(tc, utm) == [tc |-> tc, utm |-> utm]

\* connect(), after `await websocket.accept()` has returned.
connect(r, ws, trip, user) ==
    LET tc1 == IF trip \in DOMAIN r.tc THEN r.tc ELSE MapSet(r.tc, trip, <<>>)
    IN  Registry(MapSet(tc1, trip, DictPut(tc1[trip], user, ws)),
                 MapSet(r.utm, user, trip))

\* disconnect() dropping the whole room of the user's trip.
disconnect_DropsRoom(r, user) ==
    IF user \notin DOMAIN r.utm
    THEN r
    ELSE Registry(MapDel(r.tc, r.utm[user]), MapDel(r.utm, user))

\* disconnect() without the clean-up of an emptied trip room.
disconnect_NoPrune(r, user) ==
    IF user \notin DOMAIN r.utm
    THEN r
    ELSE LET trip == r.utm[user]
             utm1 == MapDel(r.utm, user)
         IN  IF trip \in DOMAIN r.tc
             THEN Registry(MapSet(r.tc, trip, DictPop(r.tc[trip], user)), utm1)
             ELSE Registry(r.tc, utm1)

\* disconnect(user_id)
disconnect(r, user) ==
    IF user \notin DOMAIN r.utm
    THEN r
    ELSE LET trip == r.utm[user]
             utm1 == MapDel(r.utm, user)
         IN  IF trip \in DOMAIN r.tc
             THEN LET members == DictPop(r.tc[trip], user)
                  IN  IF members = <<>>
                      THEN Registry(MapDel(r.tc, trip), utm1)
                      ELSE Registry(MapSet(r.tc, trip, members), utm1)
             ELSE Registry(r.tc, utm1)

\* `for user_id in disconnected_users: self.disconnect(user_id)`
RECURSIVE DisconnectAll(_, _)
DisconnectAll(r, users) ==
    IF users = <<>> THEN r
    ELSE DisconnectAll(disconnect(r, Head(users)), Tail(users))

\* get_trip_participants(trip_id)
get_trip_participants(tc, trip) ==
    IF trip \in DOMAIN tc THEN [i \in 1..Len(tc[trip]) |-> tc[trip][i].user] ELSE <<>>

\* The broadcast loop without `if user_id == exclude_user: continue`.
NextTarget_NoExclude(connections, i, exclude) ==
    IF i < Len(connections) THEN i + 1 ELSE 0

\* The index of the next entry of the snapshot, after position i, that the
\* broadcast loop sends to (it skips the excluded user); 0 when the loop ends.
NextTarget(connections, i, exclude) ==
    LET later == {j \in (i+1)..Len(connections) : connections[j].user # exclude}
    IN  IF later = {} THEN 0 ELSE CHOOSE j \in later : \A k \in later : j <= k

\* ------------------------------------------------------------------ Init
Ready(last) == [pc |-> "ready", last |-> last]

NoCall == [op |-> "none"]

RegInit ==
    /\ trip_connections = <<>>
    /\ user_trip_mapping = <<>>
    /\ call = Ready(NoCall)
    /\ connects = 0

Reg == Registry(trip_connections, user_trip_mapping)

SetReg(r) ==
    /\ trip_connections' = r.tc
    /\ user_trip_mapping' = r.utm

\* --------------------------------------------------------------- actions
\* connect(websocket, trip_id, user_id), by any task.  `accepted` is whether
\* `await websocket.accept()` returned; when it raises nothing is registered.
\* A run registers at most MaxConnects connections.
Connect(ws, trip, user, accepted) ==
    /\ connects < MaxConnects
    /\ SetReg(IF accepted THEN connect(Reg, ws, trip, user) ELSE Reg)
    /\ connects' = IF accepted THEN connects + 1 ELSE connects
    /\ UNCHANGED call
    /\ UNCHANGED <<alertVars, sessVars>>

\* disconnect(user_id), by any task.
Disconnect(user) ==
    /\ SetReg(disconnect(Reg, user))
    /\ UNCHANGED <<call, connects>>
    /\ UNCHANGED <<alertVars, sessVars>>

\* send_personal_message(), up to the await of send_text (or to its return
\* when the user is not connected).
SendPersonalStart(user) ==
    /\ call.pc = "ready"
    /\ LET trip == IF user \in DOMAIN user_trip_mapping THEN user_trip_mapping[user] ELSE 0
           ws == IF trip \in DOMAIN trip_connections
                 THEN DictGet(trip_connections[trip], user) ELSE 0
       IN  call' = IF trip = 0 \/ ws = 0
                   THEN Ready([op |-> "send_personal", user |-> user, sent |-> FALSE,
                               result |-> FALSE])
                   ELSE [pc |-> "pm_wait", user |-> user, ws |-> ws]
    /\ UNCHANGED <<trip_connections, user_trip_mapping, connects>>
    /\ UNCHANGED <<alertVars, sessVars>>

\* send_personal_message() with a failed send leaving the user registered.
SendPersonalResume_KeepsUser(ok) ==
    /\ call.pc = "pm_wait"
    /\ SetReg(Reg)
    /\ call' = Ready([op |-> "send_personal", user |-> call.user, sent |-> TRUE,
                      result |-> ok])
    /\ UNCHANGED <<connects, alertVars, sessVars>>

\* send_personal_message(), from the return of send_text on.
SendPersonalResume(ok) ==
    /\ call.pc = "pm_wait"
    /\ SetReg(IF ok THEN Reg ELSE disconnect(Reg, call.user))
    /\ call' = Ready([op |-> "send_personal", user |-> call.user, sent |-> TRUE,
                      result |-> ok])
    /\ UNCHANGED <<connects, alertVars, sessVars>>

\* What a finished broadcast_to_trip() leaves for its caller to observe.
BroadcastDone(trip, exclude, connections, attempts, failed) ==
    Ready([op |-> "broadcast", trip |-> trip, exclude |-> exclude,
           connections |-> connections, attempts |-> attempts, failed |-> failed])

\* broadcast_to_trip(), up to the await of the first send_text (or to its
\* return when the trip is unknown or nobody is to be sent to).
BroadcastStart(trip, exclude) ==
    /\ call.pc = "ready"
    /\ IF trip \notin DOMAIN trip_connections
       THEN call' = BroadcastDone(trip, exclude, <<>>, <<>>, <<>>)
       ELSE LET connections == trip_connections[trip]
                first == NextTarget(connections, 0, exclude)
            IN  call' = IF first = 0
                        THEN BroadcastDone(trip, exclude, connections, <<>>, <<>>)
                        ELSE [pc |-> "bc_wait", trip |-> trip, exclude |-> exclude,
                              connections |-> connections, idx |-> first,
                              attempts |-> <<connections[first]>>, failed |-> <<>>]
    /\ UNCHANGED <<trip_connections, user_trip_mapping, connects>>
    /\ UNCHANGED <<alertVars, sessVars>>

\* broadcast_to_trip(), from the return of one send_text to the await of the
\* next one, or through the clean-up loop to the return.
BroadcastResume(ok) ==
    /\ call.pc = "bc_wait"
    /\ LET b == call
           failed == IF ok THEN b.failed ELSE Append(b.failed, b.connections[b.idx].user)
           next == NextTarget(b.connections, b.idx, b.exclude)
       IN  IF next # 0
           THEN /\ call' = [b EXCEPT !.idx = next, !.failed = failed,
                                     !.attempts = Append(b.attempts, b.connections[next])]
                /\ UNCHANGED <<trip_connections, user_trip_mapping>>
           ELSE /\ SetReg(DisconnectAll(Reg, failed))
                /\ call' = BroadcastDone(b.trip, b.exclude, b.connections, b.attempts, failed)
    /\ UNCHANGED <<connects, alertVars, sessVars>>

\* ============================================================ alerts
\* Text is a sequence of characters; a fixed message of the code is a
\* one-element sequence holding the message.
Chars == {" ", "x"}

Texts == UNION {[1..n -> Chars] : n \in 0..MaxTextLen}

NoneText == <<"None">>

Unset == <<"unset">>

UnclearSummary == <<"The situation is unclear from the audio.">>

AIUnavailable == <<"AI processing unavailable">>

FailCauses == {"timeout", "error"}

RECURSIVE LStrip(_)
LStrip(s) == IF s # <<>> /\ Head(s) = " " THEN LStrip(Tail(s)) ELSE s

RECURSIVE RStrip(_)
RStrip(s) == IF s # <<>> /\ s[Len(s)] = " " THEN RStrip(SubSeq(s, 1, Len(s) - 1)) ELSE s

\* str.strip()
Strip(s) == RStrip(LStrip(s))

\* transcribe_audio(): `return response.strip() if response else ""`
TranscribeResult(response) ==
    IF response = NoneText \/ response = <<>> THEN <<>> ELSE Strip(response)

\* transcribe_audio(): the TranscriptionError raised for a failed call
TranscriptionErrorMsg(cause) ==
    IF cause = "timeout" THEN "Audio transcription timed out"
    ELSE "Transcription failed: " \o cause

\* transcribe_audio() letting the time-out of wait_for() escape as it is.
TranscriptionError_TimeoutEscapes(cause) ==
    [exc |-> IF cause = "timeout" THEN "TimeoutError" ELSE "TranscriptionError",
     msg |-> TranscriptionErrorMsg(cause)]

\* transcribe_audio(): `except TimeoutError` and `except Exception` both
\* raise TranscriptionError
TranscriptionError(cause) ==
    [exc |-> "TranscriptionError", msg |-> TranscriptionErrorMsg(cause)]

\* The guard with only `if not transcript`.
AnalyzeSkips_NoStrip(transcript) == transcript = <<>>

\* analyze_emergency_transcript(): `if not transcript or transcript.strip() == ""`
AnalyzeSkips(transcript) == transcript = <<>> \/ Strip(transcript) = <<>>

\* analyze_emergency_transcript(): the AnalysisError raised for a failed call
AnalysisErrorMsg(cause) ==
    IF cause = "timeout" THEN "Emergency analysis timed out"
    ELSE "Analysis failed: " \o cause

\* analyze_emergency_transcript(): `except TimeoutError` and `except
\* Exception` both raise AnalysisError
AnalysisError(cause) == [exc |-> "AnalysisError", msg |-> AnalysisErrorMsg(cause)]

\* send_emergency_alert() / send_fallback_alert(): the EmailNotificationError
RichErrorMsg == "Email notification failed: smtp"

BasicErrorMsg == "Fallback email failed: smtp"

\* str() of what db.execute() / db.commit() raise
DbErrorMsg == "db error"

NoContactsMsg == "No emergency contacts configured"

CompleteFailureMsg(fallback_error) == "Complete alert processing failure: " \o fallback_error

NoCalls == [transcribe |-> 0, analyze |-> 0, llm |-> 0, rich |-> 0, basic |-> 0]

NoResult == [kind |-> "none"]

Raised(exc, msg) == [kind |-> "raised", exc |-> exc, msg |-> msg]

IdleAlert ==
    [pc |-> "idle", direct |-> FALSE, contact_emails |-> <<>>, transcript |-> Unset,
     ai_analysis |-> Unset, exc |-> "", error |-> "", calls |-> NoCalls,
     rich_to |-> <<>>, basic_to |-> <<>>, rich_analysis |-> Unset,
     rich_ok |-> FALSE, basic_ok |-> FALSE, mail_failed |-> FALSE,
     lookup |-> "unset", base |-> 0, result |-> NoResult]

\* The failed call made again instead of the fail-safe notification.
ToFallback_Retries(a, msg) == [a EXCEPT !.error = msg]

\* The primary path's failure propagating with no fail-safe notification.
ToFallback_Propagates(a, msg) ==
    [a EXCEPT !.pc = "raised", !.error = msg,
              !.result = [kind |-> "raised", exc |-> "AlertProcessingError", msg |-> msg]]

\* `except Exception as e:` of the primary path: e is kept for the record
\* and the fallback notification is next.
ToFallback(a, msg) == [a EXCEPT !.pc = "fallback", !.error = msg]

Bump(a, what) == [a EXCEPT !.calls[what] = @ + 1]

\* `len(audio_data) > 25 * 1024 * 1024`
MaxAudioBytes == 25 * 1024 * 1024

\* _is_valid_audio_file(): the content types accepted
ValidAudioTypes ==
    {"audio/wav", "audio/wave", "audio/x-wav", "audio/mpeg", "audio/mp3", "audio/x-mp3",
     "audio/mp4", "audio/x-mp4a", "audio/webm"}

\* Content types (in lower case, "" for none) and sizes of an upload.
ContentTypes == {"", "audio/wav", "audio/webm", "text/plain"}

AudioSizes == {0, 1, MaxAudioBytes, MaxAudioBytes + 1}

_is_valid_audio_file(content_type) == content_type # "" /\ content_type \in ValidAudioTypes

NoResponse == [status_code |-> 0, status |-> "", message |-> ""]

NoUpload == [content_type |-> "", size |-> 0, read_ok |-> FALSE]

\* The response FastAPI makes of a raised HTTPException.
HttpError(status_code, detail) ==
    [status_code |-> status_code, status |-> "", message |-> detail]

\* The AlertResponse create_emergency_alert() returns, sent with 202.
ProcessingResponse ==
    [status_code |-> 202, status |-> "processing",
     message |-> "Emergency alert received and being processed"]

\* create_emergency_alert() up to the background task: the response of a
\* refused upload, NoResponse when the upload is taken.  An HTTPException
\* raised inside the try is caught by its `except Exception`.
AudioRefusal(content_type, size, read_ok) ==
    IF ~_is_valid_audio_file(content_type)
    THEN HttpError(400, "Invalid audio file. Supported formats: wav, mp3, mp4, mpeg, webm")
    ELSE IF ~read_ok
    THEN HttpError(400, "Audio file processing error: read failed")
    ELSE IF size = 0
    THEN HttpError(400, "Audio file processing error: 400: Empty audio file")
    ELSE IF size > MaxAudioBytes
    THEN HttpError(400, "Audio file processing error: 413: Audio file too large (max 25MB)")
    ELSE NoResponse

AlertInit ==
    /\ alert = IdleAlert
    /\ alerts = <<>>
    /\ invocations = 0
    /\ http_response = NoResponse
    /\ scheduled = 0
    /\ upload = NoUpload

\* The Alert table outlives the process: a row an earlier run has committed.
EarlierRow ==
    [transcript |-> <<>>, ai_analysis |-> AIUnavailable, contacts_notified |-> 1,
     processing_status |-> "fallback", error_details |-> DbErrorMsg]

\* The service starts on an empty Alert table or on one with an earlier row.
AlertInitOnTable ==
    /\ alert = IdleAlert
    /\ alerts \in {<<>>, <<EarlierRow>>}
    /\ invocations = 0
    /\ http_response = NoResponse
    /\ scheduled = 0
    /\ upload = NoUpload

\* POST /alerts/emergency: create_emergency_alert() validates the upload,
\* adds process_emergency_alert() as a background task, which runs after the
\* response has been sent, and answers at once.
CreateEmergencyAlert(content_type, size, read_ok) ==
    /\ scheduled < MaxInvocations
    /\ upload' = [content_type |-> content_type, size |-> size, read_ok |-> read_ok]
    /\ LET refusal == AudioRefusal(content_type, size, read_ok)
       IN  IF refusal # NoResponse
           THEN /\ http_response' = refusal
                /\ UNCHANGED scheduled
           ELSE /\ http_response' = ProcessingResponse
                /\ scheduled' = scheduled + 1
    /\ UNCHANGED <<alert, alerts, invocations>>
    /\ UNCHANGED <<regVars, sessVars>>

\* ProcessStart without `if not emergency_contacts: raise`.
ProcessStart_NoContactsCheck(n, lookup_ok) ==
    /\ alert.pc \in {"idle", "returned", "raised"}
    /\ invocations < MaxInvocations
    /\ invocations < scheduled
    /\ invocations' = invocations + 1
    /\ LET a == [IdleAlert EXCEPT !.base = Len(alerts),
                                  !.lookup = IF lookup_ok THEN "ok" ELSE "raised"]
       IN  alert' =
             IF ~lookup_ok
             THEN [a EXCEPT !.pc = "raised", !.result = Raised("DBError", DbErrorMsg)]
             ELSE [a EXCEPT !.pc = "transcribe", !.contact_emails = [i \in 1..n |-> i]]
    /\ UNCHANGED alerts
    /\ UNCHANGED <<regVars, sessVars, http_response, scheduled, upload>>

\* process_emergency_alert() up to the first external call: the contact
\* look-up (n rows, or db.execute raising) and the no-contacts check.
ProcessStart(n, lookup_ok) ==
    /\ alert.pc \in {"idle", "returned", "raised"}
    /\ invocations < MaxInvocations
    /\ invocations < scheduled
    /\ invocations' = invocations + 1
    /\ LET a == [IdleAlert EXCEPT !.base = Len(alerts),
                                  !.lookup = IF lookup_ok THEN "ok" ELSE "raised"]
       IN  alert' =
             IF ~lookup_ok
             THEN [a EXCEPT !.pc = "raised", !.result = Raised("DBError", DbErrorMsg)]
             ELSE IF n = 0
             THEN [a EXCEPT !.pc = "raised",
                            !.result = Raised("AlertProcessingError", NoContactsMsg)]
             ELSE [a EXCEPT !.pc = "transcribe", !.contact_emails = [i \in 1..n |-> i]]
    /\ UNCHANGED alerts
    /\ UNCHANGED <<regVars, sessVars, http_response, scheduled, upload>>

\* Step 1, transcribe_audio() returns.
TranscribeOk(response) ==
    /\ alert.pc = "transcribe"
    /\ alert' = [Bump(alert, "transcribe") EXCEPT
                    !.pc = "analyze", !.transcript = TranscribeResult(response)]
    /\ UNCHANGED <<alerts, invocations>>
    /\ UNCHANGED <<regVars, sessVars, http_response, scheduled, upload>>

\* Step 1, transcribe_audio() raises TranscriptionError (time-out or API error).
TranscribeFails(cause) ==
    /\ alert.pc = "transcribe"
    /\ LET e == TranscriptionError(cause)
       IN  alert' = ToFallback([Bump(alert, "transcribe") EXCEPT !.exc = e.exc], e.msg)
    /\ UNCHANGED <<alerts, invocations>>
    /\ UNCHANGED <<regVars, sessVars, http_response, scheduled, upload>>

\* Where a finished analyze_emergency_transcript() returns to: the pipeline's
\* step 3, or the caller of a direct call.
AnalyzeReturn(a, summary) ==
    IF a.direct
    THEN [a EXCEPT !.pc = "returned", !.ai_analysis = summary,
                   !.result = [kind |-> "returned", status |-> "analysis"]]
    ELSE [a EXCEPT !.pc = "rich", !.ai_analysis = summary]

\* Step 2, analyze_emergency_transcript() on an empty or blank transcript.
AnalyzeSkip ==
    /\ alert.pc = "analyze"
    /\ AnalyzeSkips(alert.transcript)
    /\ alert' = AnalyzeReturn(Bump(alert, "analyze"), UnclearSummary)
    /\ UNCHANGED <<alerts, invocations>>
    /\ UNCHANGED <<regVars, sessVars, http_response, scheduled, upload>>

\* Step 2, the chat completion returns `content`.
AnalyzeOk(content) ==
    /\ alert.pc = "analyze"
    /\ ~AnalyzeSkips(alert.transcript)
    /\ alert' = AnalyzeReturn(Bump(Bump(alert, "analyze"), "llm"), Strip(content))
    /\ UNCHANGED <<alerts, invocations>>
    /\ UNCHANGED <<regVars, sessVars, http_response, scheduled, upload>>

\* Step 2, the chat completion times out or fails: AnalysisError.
AnalyzeFails(cause) ==
    /\ alert.pc = "analyze"
    /\ ~AnalyzeSkips(alert.transcript)
    /\ LET a == Bump(Bump(alert, "analyze"), "llm")
           e == AnalysisError(cause)
       IN  alert' = IF a.direct
                    THEN [a EXCEPT !.pc = "raised", !.result = Raised(e.exc, e.msg)]
                    ELSE ToFallback([a EXCEPT !.exc = e.exc], e.msg)
    /\ UNCHANGED <<alerts, invocations>>
    /\ UNCHANGED <<regVars, sessVars, http_response, scheduled, upload>>

\* A direct call of OpenAIAlertClient.analyze_emergency_transcript(text).
AnalyzeDirect(text) ==
    /\ alert.pc = "idle"
    /\ alert' = [IdleAlert EXCEPT !.pc = "analyze", !.direct = TRUE, !.transcript = text]
    /\ UNCHANGED <<alerts, invocations>>
    /\ UNCHANGED <<regVars, sessVars, http_response, scheduled, upload>>

\* send_emergency_alert() reporting a failed send to nobody: the pipeline
\* goes on to its record as after a delivered notification.
SendRich_FailureSwallowed(ok) ==
    /\ alert.pc = "rich"
    /\ LET a == [Bump(alert, "rich") EXCEPT !.rich_to = alert.contact_emails,
                                            !.rich_analysis = alert.ai_analysis]
       IN  alert' = IF ok
                    THEN [a EXCEPT !.pc = "commit", !.rich_ok = TRUE]
                    ELSE [a EXCEPT !.pc = "commit", !.mail_failed = TRUE]
    /\ UNCHANGED <<alerts, invocations>>
    /\ UNCHANGED <<regVars, sessVars, http_response, scheduled, upload>>

\* Step 3, send_emergency_alert() to the contact list.
SendRich(ok) ==
    /\ alert.pc = "rich"
    /\ LET a == [Bump(alert, "rich") EXCEPT !.rich_to = alert.contact_emails,
                                            !.rich_analysis = alert.ai_analysis]
       IN  alert' = IF ok
                    THEN [a EXCEPT !.pc = "commit", !.rich_ok = TRUE]
                    ELSE ToFallback([a EXCEPT !.mail_failed = TRUE,
                                              !.exc = "EmailNotificationError"],
                                    RichErrorMsg)
    /\ UNCHANGED <<alerts, invocations>>
    /\ UNCHANGED <<regVars, sessVars, http_response, scheduled, upload>>

\* A commit that writes over the latest row of the table.
Commit_UpdatesInPlace(rows, row) ==
    IF rows = <<>> THEN <<row>> ELSE [rows EXCEPT ![Len(rows)] = row]

\* `db.add(alert); await db.commit()` on the Alert table
Commit(rows, row) == Append(rows, row)

\* Step 4, the Alert row of the primary path and its commit, then the return.
CommitSuccess(ok) ==
    /\ alert.pc = "commit"
    /\ IF ok
       THEN /\ alerts' = Commit(alerts,
                   [transcript |-> alert.transcript, ai_analysis |-> alert.ai_analysis,
                    contacts_notified |-> Len(alert.contact_emails),
                    processing_status |-> "success", error_details |-> ""])
            /\ alert' = [alert EXCEPT
                   !.pc = "returned",
                   !.result = [kind |-> "returned", status |-> "success",
                               contacts_notified |-> Len(alert.contact_emails),
                               ai_analysis |-> alert.ai_analysis]]
       ELSE /\ alert' = ToFallback([alert EXCEPT !.exc = "DBError"], DbErrorMsg)
            /\ UNCHANGED alerts
    /\ UNCHANGED invocations
    /\ UNCHANGED <<regVars, sessVars, http_response, scheduled, upload>>

\* FAIL-SAFE: send_fallback_alert() to the contact list.
SendBasic(ok) ==
    /\ alert.pc = "fallback"
    /\ LET a == [Bump(alert, "basic") EXCEPT !.basic_to = alert.contact_emails]
       IN  alert' = IF ok
                    THEN [a EXCEPT !.pc = "fallback_commit", !.basic_ok = TRUE]
                    ELSE [a EXCEPT !.pc = "raised", !.mail_failed = TRUE,
                                   !.result = Raised("AlertProcessingError",
                                                     CompleteFailureMsg(BasicErrorMsg))]
    /\ UNCHANGED <<alerts, invocations>>
    /\ UNCHANGED <<regVars, sessVars, http_response, scheduled, upload>>

\* The fallback row keeping the transcript of a transcription that worked.
FallbackRow_KeepsTranscript(a) ==
    [transcript |-> IF a.transcript = Unset THEN <<>> ELSE a.transcript,
     ai_analysis |-> AIUnavailable,
     contacts_notified |-> Len(a.contact_emails),
     processing_status |-> "fallback", error_details |-> a.error]

\* The fallback row written with the status of the primary path.
FallbackRow_StatusSuccess(a) ==
    [transcript |-> <<>>, ai_analysis |-> AIUnavailable,
     contacts_notified |-> Len(a.contact_emails),
     processing_status |-> "success", error_details |-> a.error]

\* The row written on the fallback path.
FallbackRow(a) ==
    [transcript |-> <<>>, ai_analysis |-> AIUnavailable,
     contacts_notified |-> Len(a.contact_emails),
     processing_status |-> "fallback", error_details |-> a.error]

\* The Alert row of the fallback path and its commit, then the return.
CommitFallback(ok) ==
    /\ alert.pc = "fallback_commit"
    /\ IF ok
       THEN /\ alerts' = Commit(alerts, FallbackRow(alert))
            /\ alert' = [alert EXCEPT
                   !.pc = "returned",
                   !.result = [kind |-> "returned", status |-> "fallback",
                               contacts_notified |-> Len(alert.contact_emails),
                               error |-> alert.error]]
       ELSE /\ alert' = [alert EXCEPT
                   !.pc = "raised",
                   !.result = Raised("AlertProcessingError", CompleteFailureMsg(DbErrorMsg))]
            /\ UNCHANGED alerts
    /\ UNCHANGED invocations
    /\ UNCHANGED <<regVars, sessVars, http_response, scheduled, upload>>

\* ============================================================ sessions
\* websocket_endpoint(): one invocation per WebSocket connection.  Session
\* s serves the WebSocket object s.  Every action below runs one session
\* from the return of one await to the next await (or to the end of the
\* handler), on the shared registry.
SessionIds == {1, 2}

\* websocket.close(code=...)
CloseAuthFailed == 4001

CloseTripDenied == 4003

CloseTripInactive == 4004

CloseInternalError == 1011

\* Field(..., ge=-90.0, le=90.0) and Field(..., ge=-180.0, le=180.0)
MinLatitude == -90

MaxLatitude == 90

MinLongitude == -180

MaxLongitude == 180

\* A coordinate of a received object: <<>> when the key is missing (a
\* missing longitude fails the validation as a missing latitude does).
Latitudes == {<<>>, <<37>>, <<91>>}

Longitudes == {<<-122>>, <<-181>>}

\* What `await websocket.receive_text()` produces: a text frame (unparseable,
\* JSON that is not an object, or an object with or without a known type),
\* WebSocketDisconnect, or another exception.
TextFrames ==
    {[kind |-> "text", json |-> j, type |-> "", latitude |-> <<>>, longitude |-> <<>>] :
        j \in {"invalid", "scalar"}}
    \cup {[kind |-> "text", json |-> "object", type |-> t, latitude |-> <<>>, longitude |-> <<>>] :
        t \in {"", "participant_location"}}
    \cup {[kind |-> "text", json |-> "object", type |-> "location_update",
           latitude |-> la, longitude |-> lo] : la \in Latitudes, lo \in Longitudes}

DisconnectFrame ==
    [kind |-> "disconnect", json |-> "", type |-> "", latitude |-> <<>>, longitude |-> <<>>]

ErrorFrame ==
    [kind |-> "error", json |-> "", type |-> "", latitude |-> <<>>, longitude |-> <<>>]

NoFrame ==
    [kind |-> "none", json |-> "", type |-> "", latitude |-> <<>>, longitude |-> <<>>]

Frames == TextFrames \cup {DisconnectFrame, ErrorFrame}

\* LocationUpdateMessage(**message_data) validates.
ValidLocation(f) ==
    /\ Len(f.latitude) = 1
    /\ f.latitude[1] >= MinLatitude /\ f.latitude[1] <= MaxLatitude
    /\ Len(f.longitude) = 1
    /\ f.longitude[1] >= MinLongitude /\ f.longitude[1] <= MaxLongitude

\* The body of the message loop's try, up to its first await: where a frame
\* takes the handler (receive_text, json.loads or the validation raising, the
\* location update, or the unknown-type branch).
Classify(f) ==
    IF f.kind # "text" THEN "exception"
    ELSE IF f.json = "invalid" THEN "json_error"
    ELSE IF f.json # "object" THEN "exception"
    ELSE IF f.type = "location_update"
         THEN IF ValidLocation(f) THEN "location" ELSE "exception"
    ELSE "unknown_type"

InvalidJsonError == "Invalid JSON format"

UnknownTypeError == "Unknown message type"

ProcessingFailedError == "Message processing failed"

\* The error reply for every class of frame is the generic one.
ErrorFor_AlwaysGeneric(class) ==
    IF class = "unknown_type" THEN UnknownTypeError ELSE ProcessingFailedError

\* The `error` field of the reply the loop sends for a frame of a class.
ErrorFor(class) ==
    IF class = "json_error" THEN InvalidJsonError
    ELSE IF class = "unknown_type" THEN UnknownTypeError
    ELSE ProcessingFailedError

\* user.full_name
FullName(user) == <<"name", user>>

NoMessage == [type |-> "none"]

AckMessage(trip, count) ==
    [type |-> "connection_ack", trip_id |-> trip, participant_count |-> count]

JoinMessage(user, count) ==
    [type |-> "participant_joined", user_id |-> user, full_name |-> FullName(user),
     participant_count |-> count]

LeaveMessage(user, count) ==
    [type |-> "participant_left", user_id |-> user, full_name |-> FullName(user),
     participant_count |-> count]

\* The location message with latitude and longitude exchanged.
LocationMessage_SwapsCoordinates(user, name, latitude, longitude) ==
    [type |-> "participant_location", user_id |-> user, full_name |-> name,
     location |-> [latitude |-> longitude, longitude |-> latitude]]

\* handle_location_update(): the ParticipantLocationMessage it broadcasts
LocationMessage(user, name, latitude, longitude) ==
    [type |-> "participant_location", user_id |-> user, full_name |-> name,
     location |-> [latitude |-> latitude, longitude |-> longitude]]

ErrorMessage(error) == [type |-> "error", error |-> error]

\* The token of the handshake: empty, not decodable, decodable without a
\* `sub`, or naming a user id, which may be one that no user has.
Tokens ==
    {[kind |-> k, sub |-> NoUser] : k \in {"empty", "malformed", "no_sub"}}
    \cup {[kind |-> "jwt", sub |-> u] : u \in UserIds \cup {NumUsers + 1}}

\* authenticate_websocket_token(token): the user, or the exception raised
\* (db_ok: whether the user look-up got an answer from the database).
authenticate_websocket_token(token, db_ok) ==
    IF token.kind = "empty" THEN [exc |-> "auth_error", msg |-> "Token is required"]
    ELSE IF token.kind = "malformed" THEN [exc |-> "auth_error", msg |-> "Invalid token"]
    ELSE IF token.kind = "no_sub" THEN [exc |-> "auth_error", msg |-> "Invalid token payload"]
    ELSE IF ~db_ok THEN [exc |-> "error", msg |-> DbErrorMsg]
    ELSE IF token.sub \notin UserIds THEN [exc |-> "auth_error", msg |-> "User not found"]
    ELSE [exc |-> "none", user |-> token.sub]

\* The row of the Trip table with the requested id, if there is one.
NoTrip == [found |-> FALSE]

TripRows == {NoTrip} \cup [found : {TRUE}, owner_id : UserIds, is_active : BOOLEAN]

\* get_trip_by_id(db, trip_id, user_id): the trip when the user owns it
get_trip_by_id(trip_row, user) ==
    IF trip_row.found /\ trip_row.owner_id = user THEN trip_row ELSE NoTrip

NoBc == [type |-> "none"]

\* had_update: the frame before the one being handled was a location update
\* whose broadcast has returned; update_failed: handle_location_update()
\* returned False for the frame just handled.
IdleSession ==
    [pc |-> "idle", auth |-> "unset", lookup |-> "unset", row |-> NoTrip,
     user |-> NoUser, trip |-> 0,
     registered |-> FALSE, participant_count |-> 0, ack_message |-> NoMessage,
     acked |-> FALSE, announced |-> FALSE, left_by |-> "",
     closes |-> <<>>, gone |-> FALSE, frame |-> NoFrame,
     reply |-> "", in_try |-> FALSE, replies |-> <<>>, bc |-> NoBc,
     had_update |-> FALSE, update_failed |-> FALSE]

SessInit == sessions = [s \in SessionIds |-> IdleSession]

\* A session record together with the registry it leaves.
Step(sess, r) == [sess |-> sess, r |-> r]

\* Where a call of broadcast_to_trip() returns to.
AfterBroadcast(type) == IF type = "participant_left" THEN "closed" ELSE "recv"

\* websocket_endpoint() is over: of the session remain who it was, what it
\* registered, what it sent about its join and the close calls it made; the
\* locals of the handler are gone.
Closed(sess) ==
    [sess EXCEPT !.pc = "closed", !.participant_count = 0, !.ack_message = NoMessage,
                 !.gone = FALSE, !.frame = NoFrame, !.reply = "", !.in_try = FALSE,
                 !.replies = <<>>, !.bc = NoBc, !.had_update = FALSE,
                 !.update_failed = FALSE]

\* The session's call of broadcast_to_trip() has returned: the frame it
\* was handling, if any, is done with.
BroadcastReturns(sess) ==
    IF AfterBroadcast(sess.bc.type) = "closed"
    THEN Closed(sess)
    ELSE [sess EXCEPT !.pc = AfterBroadcast(sess.bc.type), !.bc = NoBc, !.frame = NoFrame,
                      !.had_update = @ \/ sess.bc.type = "participant_location"]

\* The broadcast taking the members of every trip, not of trip_id alone.
StartBroadcast_AllTrips(sess, r, msg, exclude) ==
    LET connections == (IF 1 \in DOMAIN r.tc THEN r.tc[1] ELSE <<>>)
                           \o (IF 2 \in DOMAIN r.tc THEN r.tc[2] ELSE <<>>)
        first == NextTarget(connections, 0, exclude)
        bc == [type |-> msg.type, msg |-> msg, exclude |-> exclude,
               connections |-> connections, idx |-> first,
               attempts |-> IF first = 0 THEN <<>> ELSE <<connections[first]>>,
               failed |-> <<>>]
    IN  Step(IF first = 0 THEN BroadcastReturns([sess EXCEPT !.bc = bc])
                          ELSE [sess EXCEPT !.bc = bc, !.pc = "bc"],
             r)

\* The location broadcast started without being awaited: the loop goes
\* back to receive while the sends are still to be made.
StartBroadcast_LocationNotAwaited(sess, r, msg, exclude) ==
    LET connections == IF sess.trip \in DOMAIN r.tc THEN r.tc[sess.trip] ELSE <<>>
        first == NextTarget(connections, 0, exclude)
        bc == [type |-> msg.type, msg |-> msg, exclude |-> exclude,
               connections |-> connections, idx |-> first,
               attempts |-> IF first = 0 THEN <<>> ELSE <<connections[first]>>,
               failed |-> <<>>]
    IN  Step(IF first = 0 THEN BroadcastReturns([sess EXCEPT !.bc = bc])
             ELSE IF msg.type = "participant_location"
                  THEN [sess EXCEPT !.bc = bc, !.pc = "recv"]
                  ELSE [sess EXCEPT !.bc = bc, !.pc = "bc"],
             r)

\* broadcast_to_trip(message, trip_id, exclude_user) called by a session: up
\* to the await of its first send_text, or to its return when the trip is
\* unknown or nobody is to be sent to.
StartBroadcast(sess, r, msg, exclude) ==
    LET connections == IF sess.trip \in DOMAIN r.tc THEN r.tc[sess.trip] ELSE <<>>
        first == NextTarget(connections, 0, exclude)
        bc == [type |-> msg.type, msg |-> msg, exclude |-> exclude,
               connections |-> connections, idx |-> first,
               attempts |-> IF first = 0 THEN <<>> ELSE <<connections[first]>>,
               failed |-> <<>>]
    IN  Step(IF first = 0 THEN BroadcastReturns([sess EXCEPT !.bc = bc])
                          ELSE [sess EXCEPT !.bc = bc, !.pc = "bc"],
             r)

\* The finally block: `if "user_id" in locals()`, disconnect, and the
\* participant_left broadcast when somebody remains in the trip.
Finally(sess, r) ==
    IF sess.user = NoUser
    THEN Step(Closed(sess), r)
    ELSE LET r1 == disconnect(r, sess.user)
             remaining_count == Len(get_trip_participants(r1.tc, sess.trip))
         IN  IF remaining_count > 0
             THEN StartBroadcast(sess, r1, LeaveMessage(sess.user, remaining_count), NoUser)
             ELSE Step(Closed(sess), r1)

\* `await websocket.close(code=...)` is begun.
CloseWith(sess, code, in_try) ==
    [sess EXCEPT !.pc = "close", !.closes = Append(@, code), !.in_try = in_try]

\* The except clauses for an authentication failure answering as for any
\* other exception.
Raise_AuthAsInternal(sess, r, exc) ==
    IF exc = "disconnect" THEN Finally(sess, r)
    ELSE Step(CloseWith(sess, CloseInternalError, FALSE), r)

\* An exception leaves the try body of websocket_endpoint(): the except
\* clauses, up to the await of close() or through the finally block.
Raise(sess, r, exc) ==
    IF exc = "auth_error" THEN Step(CloseWith(sess, CloseAuthFailed, FALSE), r)
    ELSE IF exc = "disconnect" THEN Finally(sess, r)
    ELSE Step(CloseWith(sess, CloseInternalError, FALSE), r)

\* The trip check without `if not trip.is_active`.
LookupReturns_NoActiveCheck(sess, trip) ==
    IF ~trip.found THEN CloseWith(sess, CloseTripDenied, TRUE)
    ELSE [sess EXCEPT !.pc = "accept"]

\* get_trip_by_id() has returned `trip`: the two checks on it, up to the
\* await of close() or of accept() in connect().
LookupReturns(sess, trip) ==
    IF ~trip.found THEN CloseWith(sess, CloseTripDenied, TRUE)
    ELSE IF ~trip.is_active THEN CloseWith(sess, CloseTripInactive, TRUE)
    ELSE [sess EXCEPT !.pc = "accept"]

\* The handler entering the message loop right after connect().
AcceptReturns_NoAck(sess, r, ws) ==
    Step([sess EXCEPT !.pc = "recv", !.registered = TRUE],
         connect(r, ws, sess.trip, sess.user))

\* The acknowledgment counted before the session registers itself.
AcceptReturns_CountsBeforeConnect(sess, r, ws) ==
    LET participant_count == Len(get_trip_participants(r.tc, sess.trip))
    IN  Step([sess EXCEPT !.pc = "ack", !.registered = TRUE,
                          !.participant_count = participant_count,
                          !.ack_message = AckMessage(sess.trip, participant_count)],
             connect(r, ws, sess.trip, sess.user))

\* accept() has returned: connect() registers the session, the handler
\* counts the participants and begins to send the acknowledgment.
AcceptReturns(sess, r, ws) ==
    LET r1 == connect(r, ws, sess.trip, sess.user)
        participant_count == Len(get_trip_participants(r1.tc, sess.trip))
    IN  Step([sess EXCEPT !.pc = "ack", !.registered = TRUE,
                          !.participant_count = participant_count,
                          !.ack_message = AckMessage(sess.trip, participant_count)],
             r1)

\* An error reply is begun; in_try tells whether the send is inside the
\* loop's try (the unknown-type reply) or in one of its except clauses.
ReplyWith(sess, error, in_try) ==
    [sess EXCEPT !.pc = "reply", !.reply = error, !.in_try = in_try]

SetSession(s, st) ==
    /\ sessions' = [sessions EXCEPT ![s] = st.sess]
    /\ SetReg(st.r)

SendOutcomes == {"ok", "disconnect", "error"}

\* The handler is entered for a connection to /ws/trips/{trip_id} and
\* authenticate_websocket_token() has returned a user or raised.
Authenticate(s, trip, token, db_ok) ==
    /\ sessions[s].pc = "idle"
    /\ LET sess == [sessions[s] EXCEPT !.trip = trip]
           outcome == authenticate_websocket_token(token, db_ok)
       IN  IF outcome.exc = "none"
           THEN SetSession(s, Step([sess EXCEPT !.auth = "ok", !.user = outcome.user,
                                                !.pc = "lookup"], Reg))
           ELSE SetSession(s, Raise([sess EXCEPT !.auth = outcome.msg,
                                                 !.left_by = "authenticate"],
                                    Reg, outcome.exc))
    /\ UNCHANGED <<call, connects, alertVars>>

\* get_trip_by_id() has returned a trip, returned None, or raised (db_ok:
\* whether the query got an answer from the database).
Lookup(s, trip_row, db_ok) ==
    /\ sessions[s].pc = "lookup"
    /\ LET sess == sessions[s]
       IN  IF ~db_ok
           THEN SetSession(s, Raise([sess EXCEPT !.lookup = "raised",
                                                 !.left_by = "get_trip_by_id"],
                                    Reg, "error"))
           ELSE SetSession(s, Step(LookupReturns([sess EXCEPT !.lookup = "returned",
                                                              !.row = trip_row],
                                                 get_trip_by_id(trip_row, sess.user)),
                                   Reg))
    /\ UNCHANGED <<call, connects, alertVars>>

\* `await websocket.accept()` in connect() has returned or raised.
Accept(s, outcome) ==
    /\ sessions[s].pc = "accept"
    /\ IF outcome = "ok"
       THEN SetSession(s, AcceptReturns(sessions[s], Reg, s))
       ELSE SetSession(s, Raise([sessions[s] EXCEPT !.left_by = "accept"], Reg, outcome))
    /\ UNCHANGED <<call, connects, alertVars>>

\* The send of the acknowledgment has returned or raised; after it the
\* participant_joined broadcast begins.
AckDone(s, outcome) ==
    /\ sessions[s].pc = "ack"
    /\ LET sess == sessions[s]
       IN  IF outcome = "ok"
           THEN SetSession(s, StartBroadcast([sess EXCEPT !.acked = TRUE, !.announced = TRUE],
                                             Reg,
                                             JoinMessage(sess.user, sess.participant_count),
                                             sess.user))
           ELSE SetSession(s, Raise([sess EXCEPT !.left_by = "ack"], Reg, outcome))
    /\ UNCHANGED <<call, connects, alertVars>>

\* One send_text of the session's broadcast has returned or raised: the next
\* send, or the clean-up loop and the return to the caller.
BroadcastSendDone(s, ok) ==
    /\ sessions[s].pc = "bc"
    /\ LET sess == sessions[s]
           b == sess.bc
           failed == IF ok THEN b.failed ELSE Append(b.failed, b.connections[b.idx].user)
           next == NextTarget(b.connections, b.idx, b.exclude)
       IN  IF next # 0
           THEN SetSession(s, Step([sess EXCEPT !.bc.idx = next, !.bc.failed = failed,
                                       !.bc.attempts = Append(@, b.connections[next])], Reg))
           ELSE SetSession(s, Step(BroadcastReturns(sess), DisconnectAll(Reg, failed)))
    /\ UNCHANGED <<call, connects, alertVars>>

\* handle_location_update() has returned False before its broadcast (its
\* `except Exception`): the caller drops the result and the loop goes on to
\* the next receive.
UpdateFails(sess) == [sess EXCEPT !.pc = "recv", !.frame = NoFrame, !.update_failed = TRUE]

\* `await websocket.receive_text()` has produced a frame or raised.  Once
\* the peer's disconnect has been received every later receive raises.
\* built: whether handle_location_update() gets as far as its broadcast.
Receive(s, f, built) ==
    /\ sessions[s].pc = "recv"
    /\ sessions[s].gone => f = ErrorFrame
    /\ LET class == Classify(f)
           sess == [sessions[s] EXCEPT !.frame = f, !.replies = <<>>,
                                       !.update_failed = FALSE,
                                       !.had_update = @ /\ class = "location" /\ built,
                                       !.gone = @ \/ f.kind = "disconnect"]
       IN  IF class = "location"
           THEN IF built
                THEN SetSession(s, StartBroadcast(sess, Reg,
                                       LocationMessage(sess.user, FullName(sess.user),
                                                       f.latitude[1], f.longitude[1]),
                                       sess.user))
                ELSE SetSession(s, Step(UpdateFails(sess), Reg))
           ELSE SetSession(s, Step(ReplyWith(sess, ErrorFor(class), class = "unknown_type"),
                                   Reg))
    /\ UNCHANGED <<call, connects, alertVars>>

\* The send of an error reply has returned or raised.  A raise inside the
\* loop's try is answered by the generic reply; a raise in an except clause
\* leaves the loop.
ReplyDone(s, outcome) ==
    /\ sessions[s].pc = "reply"
    /\ LET sess == sessions[s]
       IN  IF outcome = "ok"
           THEN SetSession(s, Step([sess EXCEPT !.pc = "recv", !.frame = NoFrame,
                                                !.reply = "", !.in_try = FALSE,
                                                !.replies = Append(@, ErrorMessage(sess.reply))],
                                   Reg))
           ELSE IF sess.in_try
           THEN SetSession(s, Step(ReplyWith(sess, ProcessingFailedError, FALSE), Reg))
           ELSE SetSession(s, Raise([sess EXCEPT !.left_by = "reply"], Reg, outcome))
    /\ UNCHANGED <<call, connects, alertVars>>

\* `await websocket.close(...)` has returned or raised.  After the close in
\* the try body comes `return`, or the except clause of what it raised;
\* after the close in an except clause comes the finally block either way.
CloseDone(s, outcome) ==
    /\ sessions[s].pc = "close"
    /\ LET sess == sessions[s]
       IN  IF sess.in_try /\ outcome # "ok"
           THEN SetSession(s, Raise([sess EXCEPT !.left_by = "close"], Reg, outcome))
           ELSE SetSession(s, Finally(sess, Reg))
    /\ UNCHANGED <<call, connects, alertVars>>


\* =========================================================== the system
Init == RegInit /\ AlertInit /\ SessInit

\* The tasks that use the connection registry.
Next ==
    \/ \E ws \in Handles, trip \in TripIds, user \in UserIds, accepted \in BOOLEAN :
           Connect(ws, trip, user, accepted)
    \/ \E user \in UserIds : Disconnect(user)
    \/ \E user \in UserIds : SendPersonalStart(user)
    \/ \E ok \in BOOLEAN : SendPersonalResume(ok)
    \/ \E trip \in TripIds, exclude \in UserIds \cup {NoUser} : BroadcastStart(trip, exclude)
    \/ \E ok \in BOOLEAN : BroadcastResume(ok)

Spec == Init /\ [][Next]_vars

\* The alert pipeline and its collaborators.
AlertNext ==
    \/ \E content_type \in ContentTypes, size \in AudioSizes, read_ok \in BOOLEAN :
           CreateEmergencyAlert(content_type, size, read_ok)
    \/ \E n \in 0..NumContacts, lookup_ok \in BOOLEAN : ProcessStart(n, lookup_ok)
    \/ \E response \in Texts \cup {NoneText} : TranscribeOk(response)
    \/ \E cause \in FailCauses : TranscribeFails(cause)
    \/ AnalyzeSkip
    \/ \E content \in Texts \cup {UnclearSummary} : AnalyzeOk(content)
    \/ \E cause \in FailCauses : AnalyzeFails(cause)
    \/ \E text \in Texts : AnalyzeDirect(text)
    \/ \E ok \in BOOLEAN : SendRich(ok)
    \/ \E ok \in BOOLEAN : CommitSuccess(ok)
    \/ \E ok \in BOOLEAN : SendBasic(ok)
    \/ \E ok \in BOOLEAN : CommitFallback(ok)

\* The alert endpoint starts on an alerts table that may already hold a row
\* of an earlier request.
InitOnTable == RegInit /\ AlertInitOnTable /\ SessInit

SpecAlert == InitOnTable /\ [][AlertNext]_vars

\* The sessions on the shared registry.
SessNext ==
    \/ \E s \in SessionIds, trip \in TripIds, token \in Tokens, db_ok \in BOOLEAN :
           Authenticate(s, trip, token, db_ok)
    \/ \E s \in SessionIds, trip_row \in TripRows, db_ok \in BOOLEAN :
           Lookup(s, trip_row, db_ok)
    \/ \E s \in SessionIds, outcome \in SendOutcomes : Accept(s, outcome)
    \/ \E s \in SessionIds, outcome \in SendOutcomes : AckDone(s, outcome)
    \/ \E s \in SessionIds, ok \in BOOLEAN : BroadcastSendDone(s, ok)
    \/ \E s \in SessionIds, f \in Frames, built \in BOOLEAN : Receive(s, f, built)
    \/ \E s \in SessionIds, outcome \in SendOutcomes : ReplyDone(s, outcome)
    \/ \E s \in SessionIds, outcome \in SendOutcomes : CloseDone(s, outcome)

SpecSession == Init /\ [][SessNext]_vars

\* What the event loop brings about for a handler that is running: every
\* await of a database call, of accept, send_text or close returns or
\* raises, and so does receive_text once the peer's disconnect has been
\* received.  A new connection, or a frame from a peer that is still
\* there, may never come.
Progress(s) ==
    \/ \E trip_row \in TripRows, db_ok \in BOOLEAN : Lookup(s, trip_row, db_ok)
    \/ \E outcome \in SendOutcomes : Accept(s, outcome)
    \/ \E outcome \in SendOutcomes : AckDone(s, outcome)
    \/ \E ok \in BOOLEAN : BroadcastSendDone(s, ok)
    \/ sessions[s].gone /\ Receive(s, ErrorFrame, TRUE)
    \/ \E outcome \in SendOutcomes : ReplyDone(s, outcome)
    \/ \E outcome \in SendOutcomes : CloseDone(s, outcome)

SpecSessionFair ==
    Init /\ [][SessNext]_vars /\ \A s \in SessionIds : WF_vars(Progress(s))

\* ============================================================ properties
\* The trips whose member dict holds the user.
TripsOf(user) ==
    {t \in DOMAIN trip_connections : DictHas(trip_connections[t], user)}

\* C1: once the calls have returned, a user is a key of user_trip_mapping iff
\* it is in exactly one trip's member dict, the trip it is mapped to.
C1_UserInExactlyOneTrip ==
    call.pc = "ready" =>
        \A u \in UserIds :
            (u \in DOMAIN user_trip_mapping)
                <=> (\E t \in TripIds : TripsOf(u) = {t} /\ u \in DOMAIN user_trip_mapping
                                         /\ user_trip_mapping[u] = t)

\* C2: a trip is a key of trip_connections iff its member dict is non-empty:
\* no operation leaves an empty member dict behind, and a trip without
\* members has no entry.
C2_TripPresentIffNonEmpty ==
    \A t \in TripIds :
        (t \in DOMAIN trip_connections)
            <=> (get_trip_participants(trip_connections, t) # <<>>)

\* A broadcast whose failed send emptied the trip has pruned the trip entry.
C2_Witness ==
    /\ call.pc = "ready"
    /\ call.last.op = "broadcast"
    /\ call.last.failed # <<>>
    /\ call.last.trip \notin DOMAIN trip_connections
    /\ DOMAIN trip_connections # {}

Range(seq) == {seq[i] : i \in 1..Len(seq)}

\* C3: when a broadcast returns, no user whose send threw during it is in
\* the trip's participant list.
C3_FailedSendersRemoved ==
    [][(call.pc = "bc_wait" /\ call'.pc = "ready") =>
          \A u \in Range(call'.last.failed) :
              u \notin Range(get_trip_participants(trip_connections', call'.last.trip))]_vars

\* The entries of a member dict that a broadcast has to send to.
Recipients(connections, exclude) == SelectSeq(connections, LAMBDA e : e.user # exclude)

\* C4: a finished broadcast has attempted exactly one send to every handle
\* of the membership snapshot except the excluded user's, failed sends
\* included, and none for an unknown trip.
C4_OneSendPerRecipient ==
    (call.pc = "ready" /\ call.last.op = "broadcast") =>
        /\ call.last.attempts = Recipients(call.last.connections, call.last.exclude)
        /\ Range(call.last.failed) \subseteq
               {call.last.attempts[i].user : i \in 1..Len(call.last.attempts)}

\* C4: the snapshot is the trip's member dict at the start of the call.
C4_SnapshotAtStart ==
    [][(call.pc = "ready" /\ call'.pc = "bc_wait") =>
          call'.connections = trip_connections[call'.trip]]_vars

\* Two members, nobody excluded, the first send threw and the second was
\* attempted all the same.
C4_Witness ==
    /\ call.pc = "ready"
    /\ call.last.op = "broadcast"
    /\ Len(call.last.connections) = 2
    /\ Len(call.last.attempts) = 2
    /\ call.last.failed # <<>>
    /\ call.last.failed[1] = call.last.attempts[1].user

\* The handle user has in the member dict of trip, 0 when it has none.
HandleIn(tc, trip, user) == IF trip \in DOMAIN tc THEN DictGet(tc[trip], user) ELSE 0

\* C18: for every registry the tasks can produce and every user:
\* disconnect of a user that user_trip_mapping does not know changes
\* nothing; a second disconnect changes nothing after the first; disconnect
\* of a known user takes it out of user_trip_mapping and out of the member
\* dict of its trip, and every other user keeps its trip and its handle in
\* every member dict.
C18_DisconnectIdempotent ==
    \A u \in UserIds :
        LET once == disconnect(Reg, u)
        IN  /\ u \notin DOMAIN user_trip_mapping => once = Reg
            /\ disconnect(once, u) = once
            /\ u \in DOMAIN user_trip_mapping =>
                   /\ u \notin DOMAIN once.utm
                   /\ HandleIn(once.tc, user_trip_mapping[u], u) = 0
                   /\ \A v \in UserIds \ {u} :
                          /\ v \in DOMAIN once.utm <=> v \in DOMAIN user_trip_mapping
                          /\ v \in DOMAIN once.utm => once.utm[v] = user_trip_mapping[v]
                          /\ \A t \in TripIds :
                                 HandleIn(once.tc, t, v) = HandleIn(trip_connections, t, v)

\* Two users are registered in one trip, so that the disconnect of one has
\* a registration to leave alone.
C18_Witness ==
    \E u, v \in UserIds :
        /\ u # v
        /\ u \in DOMAIN user_trip_mapping
        /\ v \in DOMAIN user_trip_mapping
        /\ user_trip_mapping[u] = user_trip_mapping[v]
        /\ HandleIn(trip_connections, user_trip_mapping[u], u) # 0
        /\ HandleIn(trip_connections, user_trip_mapping[v], v) # 0

\* C19: send_personal_message() for a user that has no trip or no handle
\* returns False with no send and leaves the registry as it is; a send is
\* awaited only for a user with a handle; when the send returns the call
\* returns True and the registry is as it was, and when the send throws the
\* call returns False, the registry is what disconnect(user) makes of it and
\* user_trip_mapping no longer knows the user.
C19_SendPersonalNeverRaises ==
    [][/\ (call.pc = "ready" /\ call' # call /\ call'.pc = "ready"
             /\ call'.last.op = "send_personal") =>
              /\ ~call'.last.sent /\ ~call'.last.result
              /\ HandleIn(trip_connections,
                          IF call'.last.user \in DOMAIN user_trip_mapping
                          THEN user_trip_mapping[call'.last.user] ELSE 0,
                          call'.last.user) = 0
              /\ trip_connections' = trip_connections
              /\ user_trip_mapping' = user_trip_mapping
       /\ (call.pc = "ready" /\ call'.pc = "pm_wait") =>
              /\ call'.user \in DOMAIN user_trip_mapping
              /\ call'.ws = HandleIn(trip_connections, user_trip_mapping[call'.user],
                                     call'.user)
              /\ call'.ws # 0
              /\ trip_connections' = trip_connections
              /\ user_trip_mapping' = user_trip_mapping
       /\ (call.pc = "pm_wait" /\ call'.pc = "ready") =>
              /\ call'.last.op = "send_personal" /\ call'.last.sent
              /\ call'.last.result =>
                     /\ trip_connections' = trip_connections
                     /\ user_trip_mapping' = user_trip_mapping
              /\ ~call'.last.result =>
                     /\ call.user \notin DOMAIN user_trip_mapping'
                     /\ trip_connections' = disconnect(Reg, call.user).tc
                     /\ user_trip_mapping' = disconnect(Reg, call.user).utm
      ]_vars

\* A send to a registered user threw: the call returned False and the user
\* is gone from both maps while another user is still registered.
C19_Witness ==
    /\ call.pc = "ready"
    /\ call.last.op = "send_personal"
    /\ call.last.sent
    /\ ~call.last.result
    /\ call.last.user \notin DOMAIN user_trip_mapping
    /\ \A t \in DOMAIN trip_connections : HandleIn(trip_connections, t, call.last.user) = 0
    /\ DOMAIN user_trip_mapping # {}

\* C25: every send a broadcast attempts, whatever connects and disconnects
\* ran during its earlier sends, goes to a handle that the member dict of
\* the trip holds for that user at the moment of the attempt.
C25_NoSendToRemovedHandle ==
    [][(call'.pc = "bc_wait" /\ call' # call) =>
          LET e == call'.connections[call'.idx]
          IN  HandleIn(trip_connections', call'.trip, e.user) = e.ws]_vars

\* C26: when a broadcast to a trip returns after its send to a user's stale
\* handle threw (the user being mapped to another trip by then), the stale
\* entry is gone from the trip's member dict and the user is still mapped
\* to the other trip, with its handle there as before.
C26_StaleEntryRemovedOnFailedSend ==
    [][(call.pc = "bc_wait" /\ call'.pc = "ready") =>
          \A u \in Range(call'.last.failed) :
              (/\ u \in DOMAIN user_trip_mapping
               /\ user_trip_mapping[u] # call.trip
               /\ HandleIn(trip_connections, call.trip, u) # 0) =>
                  /\ HandleIn(trip_connections', call.trip, u) = 0
                  /\ u \in DOMAIN user_trip_mapping'
                  /\ user_trip_mapping'[u] = user_trip_mapping[u]
                  /\ HandleIn(trip_connections', user_trip_mapping[u], u)
                         = HandleIn(trip_connections, user_trip_mapping[u], u)]_vars

\* C34: when a broadcast returns, a user whose send threw but whose handle
\* of the snapshot is no longer the one the trip holds, and who is
\* registered with another handle by then, keeps that registration through
\* the clean-up loop.
C34_RemovalSparesNewRegistration ==
    [][(call.pc = "bc_wait" /\ call'.pc = "ready") =>
          \A u \in Range(call'.last.failed) :
              LET sent_to == DictGet(call.connections, u)
              IN  (/\ u \in DOMAIN user_trip_mapping
                   /\ HandleIn(trip_connections, call.trip, u) # sent_to
                   /\ HandleIn(trip_connections, user_trip_mapping[u], u) \notin {0, sent_to}) =>
                      /\ u \in DOMAIN user_trip_mapping'
                      /\ user_trip_mapping'[u] = user_trip_mapping[u]
                      /\ HandleIn(trip_connections', user_trip_mapping[u], u)
                             = HandleIn(trip_connections, user_trip_mapping[u], u)]_vars

\* ------------------------------------------------------ alert pipeline
\* The invocation is over: it returned or raised.
Ended == ~alert.direct /\ alert.pc \in {"returned", "raised"}

\* The rows this invocation has committed.
Persisted == SubSeq(alerts, alert.base + 1, Len(alerts))

TranscriptionErrors == {TranscriptionErrorMsg(c) : c \in FailCauses}

AnalysisErrors == {AnalysisErrorMsg(c) : c \in FailCauses}

\* What str(e) is when transcription, analysis or the rich notification threw.
StepErrors == TranscriptionErrors \cup AnalysisErrors \cup {RichErrorMsg}

\* C5: an invocation with contacts in which no mail call failed ends with the
\* rich or the basic notification sent to the whole contact list, whatever
\* transcription and analysis did.
C5_NotifiedUnlessMailDown ==
    (Ended /\ alert.contact_emails # <<>> /\ ~alert.mail_failed) =>
        \/ alert.rich_ok /\ alert.rich_to = alert.contact_emails
        \/ alert.basic_ok /\ alert.basic_to = alert.contact_emails

\* Transcription timed out, and the contacts got the basic notification.
C5_Witness ==
    /\ Ended
    /\ alert.error = TranscriptionErrorMsg("timeout")
    /\ alert.basic_ok
    /\ alert.basic_to = alert.contact_emails
    /\ Len(alert.contact_emails) = NumContacts

\* C6: after the transcriber threw, the analyzer and the rich notification
\* are never called, the basic notification is called exactly once, and a
\* row this invocation commits has status fallback and an empty transcript.
C6_TranscriberThrows ==
    (~alert.direct /\ alert.error \in TranscriptionErrors) =>
        /\ alert.calls.analyze = 0
        /\ alert.calls.llm = 0
        /\ alert.calls.rich = 0
        /\ alert.calls.basic = (IF alert.pc = "fallback" THEN 0 ELSE 1)
        /\ Len(Persisted) = (IF alert.pc = "returned" THEN 1 ELSE 0)
        /\ \A i \in 1..Len(Persisted) :
               /\ Persisted[i].processing_status = "fallback"
               /\ Persisted[i].transcript = <<>>

C6_Witness ==
    /\ Ended
    /\ alert.error \in TranscriptionErrors
    /\ alert.pc = "returned"
    /\ Len(Persisted) = 1

\* C7: with an empty contact list the invocation raises "No emergency
\* contacts configured" without a transcriber, analyzer or mail call and
\* without committing a row.
C7_NoContacts ==
    (~alert.direct /\ alert.lookup = "ok" /\ alert.contact_emails = <<>>) =>
        /\ alert.pc = "raised"
        /\ alert.result = Raised("AlertProcessingError", NoContactsMsg)
        /\ alert.calls = NoCalls
        /\ Persisted = <<>>

C7_Witness ==
    /\ alert.pc = "raised"
    /\ alert.lookup = "ok"
    /\ alert.contact_emails = <<>>
    /\ alert.result.msg = NoContactsMsg

\* C8: with contacts, the invocation raises only when the fallback
\* notification threw, and then commits no row; every other invocation
\* commits one row and returns status success or fallback.
C8_RaisesOnlyIfFallbackNotificationThrows ==
    (Ended /\ alert.contact_emails # <<>>) =>
        /\ alert.pc = "raised" =>
               (alert.calls.basic = 1 /\ ~alert.basic_ok /\ Persisted = <<>>)
        /\ alert.pc = "returned" =>
               (Len(Persisted) = 1 /\ alert.result.status \in {"success", "fallback"})

\* C9 as stated: whenever transcription, analysis or the rich notification
\* threw, the basic notification went to the contact list, the fallback row
\* was committed and a fallback outcome with the error was returned.
C9_AlwaysFallbackOutcome ==
    (Ended /\ alert.error \in StepErrors) =>
        /\ alert.calls.basic = 1
        /\ alert.basic_to = alert.contact_emails
        /\ alert.pc = "returned"
        /\ Persisted = <<FallbackRow(alert)>>
        /\ alert.result.status = "fallback"
        /\ alert.result.error = alert.error

\* C9 as amended: whenever transcription, analysis or the rich notification
\* threw, the basic notification is sent once to the same contact list; an
\* invocation that then returns has committed the row (fallback, empty
\* transcript, "AI processing unavailable", the error's description) and
\* returns a fallback outcome with that description; one that raises, which
\* it does only if the basic notification or the commit threw, raises
\* AlertProcessingError and has committed nothing.
C9_FallbackOutcome ==
    (Ended /\ alert.error \in StepErrors) =>
        /\ alert.calls.basic = 1
        /\ alert.basic_to = alert.contact_emails
        /\ alert.pc = "returned" =>
               /\ alert.basic_ok
               /\ Persisted = <<[transcript |-> <<>>, ai_analysis |-> AIUnavailable,
                                 contacts_notified |-> Len(alert.contact_emails),
                                 processing_status |-> "fallback",
                                 error_details |-> alert.error]>>
               /\ alert.result.status = "fallback"
               /\ alert.result.error = alert.error
               /\ alert.result.contacts_notified = Len(alert.contact_emails)
        /\ alert.pc = "raised" =>
               /\ alert.result.exc = "AlertProcessingError"
               /\ Persisted = <<>>

\* Analysis failed after a transcription that produced text, and the row was
\* committed.
C9_Witness ==
    /\ Ended
    /\ alert.error \in AnalysisErrors
    /\ alert.transcript \notin {Unset, <<>>}
    /\ alert.pc = "returned"
    /\ Len(Persisted) = 1

\* Empty or whitespace-only text.
IsBlank(text) == text # Unset /\ \A i \in 1..Len(text) : text[i] = " "

\* C10: for a blank transcript the analyzer makes no external call and the
\* summary is the fixed "unclear" sentence; the pipeline goes on to the rich
\* notification with that summary and, unless that or the commit throws,
\* to a row with status success.
C10_BlankTranscriptSkipsAnalyzer ==
    (IsBlank(alert.transcript) /\ alert.pc # "analyze") =>
        /\ alert.calls.analyze = 1
        /\ alert.calls.llm = 0
        /\ alert.ai_analysis = UnclearSummary
        /\ alert.direct => alert.pc = "returned"
        /\ ~alert.direct =>
               /\ alert.error \in {"", RichErrorMsg, DbErrorMsg}
               /\ alert.pc = "rich" <=> alert.calls.rich = 0
               /\ alert.calls.rich = 1 => alert.rich_analysis = UnclearSummary
               /\ (alert.pc = "returned" /\ alert.error = "") =>
                      /\ Len(Persisted) = 1
                      /\ Persisted[1].processing_status = "success"
                      /\ Persisted[1].ai_analysis = UnclearSummary
                      /\ alert.result.status = "success"

\* The transcriber returned only blanks and the pipeline ended in success.
C10_Witness ==
    /\ Ended
    /\ alert.transcript = <<>>
    /\ alert.result.kind = "returned"
    /\ alert.result.status = "success"
    /\ alert.calls.llm = 0

\* C20: when an invocation has returned on the fallback path, the response
\* the triggering request got has status "fallback" and carries the error.
C20_CallerToldFallback ==
    (Ended /\ alert.result.kind = "returned" /\ alert.result.status = "fallback") =>
        /\ http_response.status = "fallback"
        /\ http_response.message = alert.error

\* C21: a request with an accepted content type whose body is read is
\* answered 413 when the body is larger than 25 MiB and 400 when it is empty,
\* and schedules nothing in either case; a request that schedules the
\* pipeline has an accepted content type and a body of 1 byte to 25 MiB.
C21_UploadChecked ==
    [][(upload' # upload \/ http_response' # http_response \/ scheduled' # scheduled) =>
          LET accepted_type == upload'.content_type \in ValidAudioTypes
          IN  /\ (accepted_type /\ upload'.read_ok /\ upload'.size > MaxAudioBytes) =>
                     (http_response'.status_code = 413 /\ scheduled' = scheduled)
              /\ (accepted_type /\ upload'.read_ok /\ upload'.size = 0) =>
                     (http_response'.status_code = 400 /\ scheduled' = scheduled)
              /\ scheduled' # scheduled =>
                     /\ accepted_type
                     /\ upload'.size >= 1 /\ upload'.size <= MaxAudioBytes
      ]_vars

\* C24: a transcription that fails leaves the pipeline at the fail-safe
\* notification with TranscriptionError as the exception caught, whether it
\* timed out or failed otherwise: but for the text of the error the state is
\* the same, with no analyzer and no mail call made.  The same holds of an
\* analysis that fails, with AnalysisError, in the pipeline and in a direct
\* call, which raises AnalysisError to its caller.
C24_TimeoutIsAFailure ==
    [][/\ (alert.pc = "transcribe" /\ alert' # alert /\ alert'.pc # "analyze") =>
              /\ alert'.error \in TranscriptionErrors
              /\ alert' = [alert EXCEPT !.pc = "fallback", !.exc = "TranscriptionError",
                                         !.error = alert'.error,
                                         !.calls.transcribe = @ + 1]
       /\ (alert.pc = "analyze" /\ ~alert.direct /\ alert' # alert /\ alert'.pc # "rich") =>
              /\ alert'.error \in AnalysisErrors
              /\ alert' = [alert EXCEPT !.pc = "fallback", !.exc = "AnalysisError",
                                         !.error = alert'.error,
                                         !.calls.analyze = @ + 1, !.calls.llm = @ + 1]
       /\ (alert.pc = "analyze" /\ alert.direct /\ alert' # alert /\ alert'.pc # "returned") =>
              /\ alert'.pc = "raised"
              /\ alert'.result.exc = "AnalysisError"
              /\ alert'.result.msg \in AnalysisErrors
      ]_vars

\* The analysis timed out after a transcription that worked, and the
\* invocation returned the fallback outcome.
C24_Witness ==
    /\ Ended
    /\ alert.exc = "AnalysisError"
    /\ alert.error = AnalysisErrorMsg("timeout")
    /\ alert.calls.transcribe = 1
    /\ alert.calls.basic = 1
    /\ alert.result.kind = "returned"
    /\ alert.result.status = "fallback"

\* The pipeline is on its fail-safe path or over.
OffPrimaryPath(a) == a.pc \in {"fallback", "fallback_commit", "returned", "raised"}

\* C28: in an invocation of the pipeline the transcriber, the analyzer, the
\* rich and the basic notification are each called at most once; a call is
\* made only from the step it belongs to, and a call that throws leaves the
\* invocation at the fail-safe notification, or raised when it was the
\* fail-safe notification that threw; once the primary path is left none of
\* its calls is made again.
C28_NoRetry ==
    [][(~alert'.direct /\ alert' # alert /\ alert'.pc # "idle" /\ alert.pc # "idle"
          /\ ~(alert.pc \in {"returned", "raised"})) =>
          /\ \A w \in DOMAIN NoCalls : alert'.calls[w] <= 1
          /\ \A w \in DOMAIN NoCalls : alert'.calls[w] >= alert.calls[w]
          /\ alert'.calls.transcribe > alert.calls.transcribe =>
                 (alert.pc = "transcribe" /\ alert'.pc \in {"analyze", "fallback"})
          /\ alert'.calls.analyze > alert.calls.analyze =>
                 (alert.pc = "analyze" /\ alert'.pc \in {"rich", "fallback"})
          /\ alert'.calls.rich > alert.calls.rich =>
                 (alert.pc = "rich" /\ alert'.pc \in {"commit", "fallback"})
          /\ alert'.calls.basic > alert.calls.basic =>
                 (alert.pc = "fallback" /\ alert'.pc \in {"fallback_commit", "raised"})
          /\ alert'.error # alert.error => alert'.pc = "fallback"
          /\ OffPrimaryPath(alert) =>
                 /\ OffPrimaryPath(alert')
                 /\ alert'.calls.transcribe = alert.calls.transcribe
                 /\ alert'.calls.analyze = alert.calls.analyze
                 /\ alert'.calls.rich = alert.calls.rich
      ]_vars

\* The rich notification threw after transcription and analysis, and the
\* invocation is over with every call made once.
C28_Witness ==
    /\ Ended
    /\ alert.exc = "EmailNotificationError"
    /\ alert.calls = [transcribe |-> 1, analyze |-> 1, llm |-> 1, rich |-> 1, basic |-> 1]
    /\ alert.basic_ok

\* C29: no step removes or changes a row of the Alert table, and a step adds
\* at most one; an invocation never has more than one row of its own, has
\* exactly one, with the status it returns, when it returns success or
\* fallback, and none when it raises (no contacts, or the fail-safe path
\* failed).
C29_OneRowNeverChanged ==
    [][/\ Len(alerts') >= Len(alerts)
       /\ Len(alerts') <= Len(alerts) + 1
       /\ SubSeq(alerts', 1, Len(alerts)) = alerts
       /\ ~alert'.direct =>
              /\ Len(Persisted') <= 1
              /\ (alert'.pc = "returned") =>
                     /\ Len(Persisted') = 1
                     /\ alert'.result.status \in {"success", "fallback"}
                     /\ Persisted'[1].processing_status = alert'.result.status
              /\ (alert'.pc = "raised") => Persisted' = <<>>
      ]_vars

\* The commit of the primary path threw and the fail-safe path committed its
\* row after the row an earlier run had left, which is as it was.
C29_Witness ==
    /\ Ended
    /\ alert.exc = "DBError"
    /\ alert.pc = "returned"
    /\ alert.base = 1
    /\ alerts = <<EarlierRow, FallbackRow(alert)>>

\* C35: an invocation whose rich notification was delivered makes no call
\* of the basic notification.
C35_NeverBothNotifications ==
    (~alert.direct /\ alert.rich_ok) => alert.calls.basic = 0

\* C36: the step that commits an Alert row is the return of an invocation
\* with contacts whose notification has been delivered: a row with status
\* success after the rich notification, a row with status fallback after
\* the basic one; the row and the outcome returned carry the same status
\* and, as contacts_notified, the number of contact emails.
C36_RowAfterNotification ==
    [][Len(alerts') > Len(alerts) =>
          LET row == alerts'[Len(alerts')]
              n == Len(alert.contact_emails)
          IN  /\ ~alert.direct
              /\ n > 0
              /\ alert'.contact_emails = alert.contact_emails
              /\ row.processing_status \in {"success", "fallback"}
              /\ row.processing_status = "success" =>
                     (alert.rich_ok /\ alert.rich_to = alert.contact_emails)
              /\ row.processing_status = "fallback" =>
                     (alert.basic_ok /\ alert.basic_to = alert.contact_emails)
              /\ row.contacts_notified = n
              /\ alert'.pc = "returned"
              /\ alert'.result.status = row.processing_status
              /\ alert'.result.contacts_notified = n
      ]_vars

\* The rich notification went to every contact and the invocation returned
\* success with its row committed.
C36_Witness ==
    /\ Ended
    /\ alert.rich_ok
    /\ ~alert.basic_ok
    /\ alert.result.kind = "returned"
    /\ alert.result.status = "success"
    /\ alert.result.contacts_notified = NumContacts
    /\ Len(Persisted) = 1
    /\ Persisted[1].processing_status = "success"
    /\ Persisted[1].contacts_notified = NumContacts

\* ------------------------------------------------------------ sessions
\* The WebSocket object ws is a value of some trip's member dict.
HandleRegistered(ws) ==
    \E t \in DOMAIN trip_connections :
        \E i \in 1..Len(trip_connections[t]) : trip_connections[t][i].ws = ws

\* The session is past the checks: it is registering, acknowledging,
\* announcing itself or in the message loop.
PastChecks(sess) ==
    \/ sess.pc \in {"accept", "ack", "recv", "reply"}
    \/ sess.pc = "bc" /\ sess.bc.type # "participant_left"

\* The session has done nothing of a join: it has not registered, sent no
\* acknowledgment and announced nothing.
NothingOfJoin(s) ==
    /\ ~sessions[s].registered
    /\ ~sessions[s].acked
    /\ ~sessions[s].announced
    /\ ~HandleRegistered(s)

\* The trip look-up of the session found a trip of its user that is not active.
InactiveTrip(sess) ==
    /\ sess.lookup = "returned"
    /\ sess.row.found
    /\ sess.row.owner_id = sess.user
    /\ ~sess.row.is_active

\* C11: a session whose trip look-up finds the trip and finds it not active
\* calls close with 4004 first of all, and neither before nor after that does
\* it register, send a connection_ack or broadcast participant_joined.
C11_InactiveTripRejected ==
    \A s \in SessionIds :
        InactiveTrip(sessions[s]) =>
            /\ sessions[s].closes # <<>>
            /\ sessions[s].closes[1] = CloseTripInactive
            /\ ~PastChecks(sessions[s])
            /\ NothingOfJoin(s)

\* A session rejected for an inactive trip has ended while the other session
\* is in the message loop of the same trip.
C11_Witness ==
    \E s, o \in SessionIds :
        /\ InactiveTrip(sessions[s])
        /\ sessions[s].pc = "closed"
        /\ sessions[s].closes = <<CloseTripInactive>>
        /\ sessions[o].pc = "recv"
        /\ sessions[o].trip = sessions[s].trip

\* The messages of WebSocketAuthError
AuthErrors == {"Token is required", "Invalid token", "Invalid token payload", "User not found"}

\* The close code that answers what made the session fail before the join,
\* 0 when nothing did.
ExpectedClose(sess) ==
    IF sess.auth \in AuthErrors THEN CloseAuthFailed
    ELSE IF sess.auth = DbErrorMsg \/ sess.lookup = "raised" THEN CloseInternalError
    ELSE IF sess.lookup # "returned" THEN 0
    ELSE IF ~sess.row.found \/ sess.row.owner_id # sess.user THEN CloseTripDenied
    ELSE IF ~sess.row.is_active THEN CloseTripInactive
    ELSE 0

\* C12: a session whose token is rejected, whose trip is missing or not its
\* user's, or whose trip is not active calls close with the code of that
\* failure first of all and never registers, acknowledges, announces itself
\* or enters the message loop; the codes of the four failures differ.
C12_FailedChecksClose ==
    /\ Cardinality({CloseAuthFailed, CloseTripDenied, CloseTripInactive,
                    CloseInternalError}) = 4
    /\ \A s \in SessionIds :
           ExpectedClose(sessions[s]) # 0 =>
               /\ sessions[s].closes # <<>>
               /\ sessions[s].closes[1] = ExpectedClose(sessions[s])
               /\ ~PastChecks(sessions[s])
               /\ NothingOfJoin(s)

\* One session was refused for an unknown user and the other for a trip
\* that is not its user's; both have ended.
C12_Witness ==
    \E s, o \in SessionIds :
        /\ sessions[s].auth = "User not found"
        /\ sessions[s].pc = "closed"
        /\ sessions[s].closes = <<CloseAuthFailed>>
        /\ sessions[o].lookup = "returned"
        /\ sessions[o].row.found
        /\ sessions[o].row.owner_id # sessions[o].user
        /\ sessions[o].pc = "closed"
        /\ sessions[o].closes = <<CloseTripDenied>>

\* seq is the beginning of full, and all of it once `whole` holds.
SentSoFar(seq, full, whole) ==
    /\ Len(seq) <= Len(full)
    /\ seq = SubSeq(full, 1, Len(seq))
    /\ whole => seq = full

\* The broadcast of message type `type` by session s is running; what it has
\* sent to so far are, in order, the entries of its snapshot that are not
\* the session's user, all of them once no entry is left, and never the
\* session's own WebSocket.
BroadcastToOthers(s, type) ==
    LET sess == sessions[s]
    IN  (sess.pc = "bc" /\ sess.bc.type = type) =>
            /\ sess.bc.exclude = sess.user
            /\ SentSoFar(sess.bc.attempts, Recipients(sess.bc.connections, sess.user),
                         NextTarget(sess.bc.connections, sess.bc.idx, sess.bc.exclude) = 0)
            /\ \A i \in 1..Len(sess.bc.attempts) :
                   sess.bc.attempts[i].user # sess.user /\ sess.bc.attempts[i].ws # s

\* The member dict of the session's trip, empty for an unknown trip.
MembersOf(tc, trip) == IF trip \in DOMAIN tc THEN tc[trip] ELSE <<>>

\* C13: the step that registers a session leaves its handle in the trip's
\* member dict and starts the connection_ack, whose participant_count is
\* the number of members then, the session's user among them; the
\* participant_joined broadcast starts only in the step in which that
\* acknowledgment has been sent, carries the same count, takes the members
\* of that moment and sends once to each of them but the session's user.
C13_JoinOrder ==
    [][\A s \in SessionIds :
         LET old == sessions[s]
             new == sessions'[s]
             members == get_trip_participants(trip_connections', new.trip)
         IN  /\ (old.pc = "accept" /\ new.pc = "ack") =>
                    /\ new.registered /\ ~new.acked /\ ~new.announced
                    /\ DictGet(MembersOf(trip_connections', new.trip), new.user) = s
                    /\ new.user \in Range(members)
                    /\ new.ack_message = AckMessage(new.trip, Len(members))
             /\ (~old.announced /\ new.announced) =>
                    /\ old.pc = "ack" /\ new.registered /\ new.acked
                    /\ new.pc = "bc" =>
                           /\ new.bc.msg = JoinMessage(new.user,
                                                       old.ack_message.participant_count)
                           /\ new.bc.connections = MembersOf(trip_connections, new.trip)
             /\ (new.pc = "bc" /\ new.bc.type = "participant_joined") =>
                    new.bc.msg.participant_count = new.ack_message.participant_count
             /\ BroadcastToOthers(s, "participant_joined")'
      ]_vars

\* A session has been acknowledged as the second participant and its
\* participant_joined has gone to the other session's handle.
C13_Witness ==
    \E s, o \in SessionIds :
        /\ s # o
        /\ sessions[s].pc = "bc"
        /\ sessions[s].bc.type = "participant_joined"
        /\ sessions[s].acked
        /\ sessions[s].ack_message.participant_count = 2
        /\ sessions[s].bc.msg.participant_count = 2
        /\ sessions[s].bc.attempts = <<[user |-> sessions[o].user, ws |-> o]>>
        /\ sessions[o].pc = "recv"

\* A text frame that is not a well-formed location update.
BadFrame(f) == f.kind = "text" /\ ~(f.type = "location_update" /\ ValidLocation(f))

\* C14: a frame that is unparseable, of an unknown type, or a location
\* update with missing or out-of-range coordinates starts no broadcast and
\* leaves the registry alone; unless the send of the reply throws, the
\* session is back at receive with exactly one error reply delivered to its
\* own connection ("Invalid JSON format" for an unparseable frame) and no
\* close call made.
C14_BadFrameGetsOneError ==
    [][\A s \in SessionIds :
         LET old == sessions[s]
             new == sessions'[s]
         IN  /\ (old.pc = "recv" /\ new.pc # "recv" /\ BadFrame(new.frame)) =>
                    /\ new.pc = "reply" /\ new.bc = NoBc /\ new.replies = <<>>
                    /\ trip_connections' = trip_connections
                    /\ user_trip_mapping' = user_trip_mapping
             /\ (old.pc = "reply" /\ BadFrame(old.frame) /\ new # old) =>
                    \/ /\ new.pc = "recv"
                       /\ Len(new.replies) = 1
                       /\ new.replies[1].type = "error"
                       /\ old.frame.json = "invalid" => new.replies[1].error = InvalidJsonError
                       /\ new.closes = <<>>
                       /\ trip_connections' = trip_connections
                       /\ user_trip_mapping' = user_trip_mapping
                    \/ /\ new.pc = "reply"
                       /\ old.in_try /\ ~new.in_try
                       /\ new.frame = old.frame /\ new.replies = <<>>
                       /\ trip_connections' = trip_connections
                       /\ user_trip_mapping' = user_trip_mapping
                    \/ /\ new.left_by = "reply"
                       /\ new.replies = <<>>
      ]_vars

\* A registered session got "Invalid JSON format" for an unparseable frame
\* and is at receive again, the other session being in the same trip.
C14_Witness ==
    \E s, o \in SessionIds :
        /\ s # o
        /\ sessions[s].pc = "recv"
        /\ sessions[s].replies = <<ErrorMessage(InvalidJsonError)>>
        /\ HandleRegistered(s)
        /\ sessions[o].pc = "recv"
        /\ HandleRegistered(o)
        /\ sessions[o].trip = sessions[s].trip

C15_ClosedSessionDeregistered ==
    \A s \in SessionIds :
        (sessions[s].pc = "closed" /\ sessions[s].registered) => ~HandleRegistered(s)

\* The session's participant_left broadcast is running.
Leaving(sess) == sess.pc = "bc" /\ sess.bc.type = "participant_left"

\* C17: the step that starts a session's participant_left broadcast leaves
\* the session's user in neither map of the registry, and the message's
\* participant_count is the number of members the trip has then, which is
\* not zero; a session that ends without the broadcast leaves its trip
\* without members.
C17_LeftAfterRemoval ==
    [][\A s \in SessionIds :
         LET old == sessions[s]
             new == sessions'[s]
             members == get_trip_participants(trip_connections', new.trip)
         IN  /\ (~Leaving(old) /\ Leaving(new)) =>
                    /\ new.user \notin DOMAIN user_trip_mapping'
                    /\ new.user \notin Range(members)
                    /\ new.bc.msg = LeaveMessage(new.user, Len(members))
                    /\ Len(members) > 0
             /\ (~Leaving(old) /\ old.pc # "closed" /\ new.pc = "closed"
                   /\ new.user # NoUser) =>
                    members = <<>>
      ]_vars

\* The session has received the peer's disconnect, or its receive raised
\* another error.
ConnectionGone(s) == sessions[s].gone \/ sessions[s].frame.kind = "error"

\* C22: a session whose peer has disconnected, or whose receive has raised,
\* eventually ends.
C22_EventuallyClosed ==
    \A s \in SessionIds : [](ConnectionGone(s) => <>(sessions[s].pc = "closed"))

\* C23: the step in which handle_location_update() returns False for a
\* well-formed update begins an error reply ("Message processing failed") to
\* the sender's connection, makes no close call and leaves the registry
\* alone.
C23_FailedUpdateReported ==
    [][\A s \in SessionIds :
         (~sessions[s].update_failed /\ sessions'[s].update_failed) =>
             /\ sessions'[s].pc = "reply"
             /\ sessions'[s].reply = ProcessingFailedError
             /\ sessions'[s].closes = sessions[s].closes
             /\ trip_connections' = trip_connections
             /\ user_trip_mapping' = user_trip_mapping
      ]_vars

\* C27: a session that broadcasts a participant_location, waits for a frame
\* or answers one has sent its connection_ack and has had its
\* participant_joined broadcast; while that broadcast is running no frame
\* has been read and no update handled.
C27_JoinBeforeLocation ==
    \A s \in SessionIds :
        LET sess == sessions[s]
        IN  /\ (sess.pc = "bc" /\ sess.bc.type = "participant_location") =>
                   (sess.registered /\ sess.acked /\ sess.announced)
            /\ sess.pc \in {"recv", "reply"} => (sess.acked /\ sess.announced)
            /\ (sess.frame # NoFrame \/ sess.had_update \/ sess.update_failed) =>
                   (sess.acked /\ sess.announced)
            /\ (sess.pc = "bc" /\ sess.bc.type = "participant_joined") =>
                   (sess.acked /\ sess.frame = NoFrame /\ ~sess.had_update
                      /\ ~sess.update_failed)
            /\ sess.pc \in {"idle", "lookup", "accept", "ack"} =>
                   (~sess.acked /\ ~sess.announced /\ sess.frame = NoFrame)

\* A session that joined its trip alone sends its location update to the
\* session that joined after it.
C27_Witness ==
    \E s, o \in SessionIds :
        /\ s # o
        /\ sessions[s].pc = "bc"
        /\ sessions[s].bc.type = "participant_location"
        /\ sessions[s].acked /\ sessions[s].announced
        /\ sessions[s].ack_message.participant_count = 1
        /\ sessions[o].ack_message.participant_count = 2
        /\ sessions[s].bc.attempts = <<[user |-> sessions[o].user, ws |-> o]>>

\* C30: a session reads a frame only while no broadcast of its own is
\* running; a participant_location broadcast goes on with the same message,
\* the same frame and the same snapshot, one more send each step, and
\* returns to the receive only when every entry of the snapshot has had its
\* send: the sends for one update are all made before the next is read.
C30_UpdatesInOrder ==
    [][\A s \in SessionIds :
         LET old == sessions[s]
             new == sessions'[s]
         IN  /\ (new.frame # old.frame /\ new.frame # NoFrame) =>
                    (old.pc = "recv" /\ old.bc = NoBc /\ old.frame = NoFrame)
             /\ old.pc = "recv" => old.bc = NoBc
             /\ (old.pc = "bc" /\ old.bc.type = "participant_location" /\ new # old) =>
                    \/ /\ new.pc = "bc"
                       /\ new.frame = old.frame
                       /\ new.bc.msg = old.bc.msg
                       /\ new.bc.connections = old.bc.connections
                       /\ Len(new.bc.attempts) = Len(old.bc.attempts) + 1
                       /\ SubSeq(new.bc.attempts, 1, Len(old.bc.attempts)) = old.bc.attempts
                    \/ /\ new.pc = "recv"
                       /\ new.bc = NoBc
                       /\ new.had_update
                       /\ NextTarget(old.bc.connections, old.bc.idx, old.bc.exclude) = 0
      ]_vars

\* The session's second update in a row is on its way to the other session
\* of the trip, the broadcast of the first having returned.
C30_Witness ==
    \E s, o \in SessionIds :
        /\ s # o
        /\ sessions[s].pc = "bc"
        /\ sessions[s].bc.type = "participant_location"
        /\ sessions[s].had_update
        /\ sessions[s].bc.attempts = <<[user |-> sessions[o].user, ws |-> o]>>
        /\ sessions[o].pc = "recv"
        /\ sessions[o].trip = sessions[s].trip

\* The check of the trip (found, the user's own, active) refused the session.
RejectedAtTrip(sess) ==
    /\ sess.lookup = "returned"
    /\ ExpectedClose(sess) \in {CloseTripDenied, CloseTripInactive}

\* The session has registered and been acknowledged: it is announcing itself
\* or in the message loop.
Joined(sess) == sess.registered /\ sess.acked /\ PastChecks(sess)

\* What the member dict of the session's trip holds for the session's user
\* is the session's own WebSocket.
OwnRegistration(tc, sess, ws) == DictGet(MembersOf(tc, sess.trip), sess.user) = ws

\* C31: a step of a session that the trip check refused leaves in place the
\* registration of every joined session of the same user.
C31_RejectedLeavesRegistry ==
    [][\A s, o \in SessionIds :
         (/\ s # o
          /\ sessions'[s] # sessions[s]
          /\ RejectedAtTrip(sessions'[s])
          /\ sessions[o].user = sessions[s].user
          /\ Joined(sessions[o])
          /\ OwnRegistration(trip_connections, sessions[o], o)) =>
             OwnRegistration(trip_connections', sessions[o], o)
      ]_vars

\* C32: a session whose participant_left broadcast is running had
\* registered its user in the trip the broadcast goes to.
C32_LeftOnlyByRegistered ==
    \A s \in SessionIds :
        Leaving(sessions[s]) =>
            /\ sessions[s].registered
            /\ sessions[s].bc.msg.user_id = sessions[s].user

\* C33: of two joined sessions of one user in one trip, the one whose handle
\* the registry holds keeps its registration through the step in which the
\* other runs its finally block.
C33_CloseRemovesOwnHandleOnly ==
    [][\A s, o \in SessionIds :
         (/\ s # o
          /\ Joined(sessions[s]) /\ Joined(sessions[o])
          /\ sessions[s].user = sessions[o].user
          /\ sessions[s].trip = sessions[o].trip
          /\ OwnRegistration(trip_connections, sessions[o], o)
          /\ (Leaving(sessions'[s]) \/ sessions'[s].pc = "closed")) =>
             OwnRegistration(trip_connections', sessions[o], o)
      ]_vars

\* The session passed authentication and the access and active checks of
\* its trip.
PassedChecks(sess) ==
    /\ sess.auth = "ok"
    /\ sess.lookup = "returned"
    /\ sess.row.found
    /\ sess.row.owner_id = sess.user
    /\ sess.row.is_active

\* The WebSocket object ws is a value of the member dict of a trip other
\* than `trip`.
RegisteredElsewhere(tc, trip, ws) ==
    \E t \in (DOMAIN tc) \ {trip} : \E i \in 1..Len(tc[t]) : tc[t][i].ws = ws

\* C37: a broadcast a session starts is of a participant_joined,
\* participant_location or participant_left message and takes the member
\* dict of the session's own trip; each of its sends goes to an entry of
\* that snapshot, the handle of a session of the same trip, which no other
\* trip's member dict holds.  A handle enters the member dict of a trip
\* only in the step in which accept() returns to the session it belongs to,
\* that session having passed authentication and the access and active
\* checks for that trip as that user.
C37_TripsIsolated ==
    [][/\ \A s \in SessionIds :
            LET old == sessions[s]
                new == sessions'[s]
            IN  /\ (new.pc = "bc" /\ old.pc # "bc") =>
                       /\ new.bc.type \in {"participant_joined", "participant_location",
                                           "participant_left"}
                       /\ new.bc.connections = MembersOf(trip_connections', new.trip)
                /\ (new.pc = "bc" /\ old.pc = "bc") =>
                       /\ new.bc.type = old.bc.type
                       /\ new.bc.connections = old.bc.connections
                /\ (new.pc = "bc" /\ new # old) =>
                       \A i \in 1..Len(new.bc.attempts) :
                           LET e == new.bc.attempts[i]
                           IN  /\ e \in Range(new.bc.connections)
                               /\ e.ws \in SessionIds
                               /\ sessions'[e.ws].trip = new.trip
                               /\ ~RegisteredElsewhere(trip_connections', new.trip, e.ws)
       /\ \A t \in DOMAIN trip_connections', u \in UserIds :
            LET h == HandleIn(trip_connections', t, u)
            IN  (/\ trip_connections' # trip_connections
                 /\ h # 0
                 /\ h # HandleIn(trip_connections, t, u)) =>
                    /\ sessions[h].pc = "accept"
                    /\ sessions'[h].registered
                    /\ sessions'[h].trip = t
                    /\ sessions'[h].user = u
                    /\ PassedChecks(sessions'[h])
      ]_vars

\* Two sessions are registered in different trips; the location update of
\* one has been broadcast to its trip and the other, waiting for a frame, was
\* sent nothing.
C37_Witness ==
    \E s, o \in SessionIds :
        /\ sessions[s].trip # sessions[o].trip
        /\ OwnRegistration(trip_connections, sessions[s], s)
        /\ OwnRegistration(trip_connections, sessions[o], o)
        /\ PassedChecks(sessions[s]) /\ PassedChecks(sessions[o])
        /\ sessions[s].pc = "recv"
        /\ sessions[s].had_update
        /\ sessions[o].pc = "recv"
        /\ sessions[o].announced

====
